---- MODULE Spec2Model ----
(***************************************************************************)
(* Verification model of the sallyport block protocol:                     *)
(*   - v2 host side: item::Header / item::Kind / item::Syscall layout,     *)
(*     BlockIter::new, BlockIter::next, execute, execute_item              *)
(*   - v2 guest side: Read::stage, Read::collect                           *)
(*   - guest call policy: Fcntl::stage                                     *)
(* usize arithmetic is modelled modulo 2^UsizeBits.  Pointers are byte     *)
(* offsets from the start of the block, in the same modular range.         *)
(***************************************************************************)
EXTENDS Integers, Sequences, FiniteSets, TLC

\* ------------------------------------------------------------------ bounds
UsizeBits == 8      \* width of usize in the model (the program's is 64)
NWords == 4         \* N of the arbitrary blocks [usize; N]
MaxYield == 3       \* BlockIter::next is not called after this many items
AllocCap == 4       \* bytes of the block free for staging when a round trip starts
MaxBuf == 3         \* longest caller buffer of a Read
MaxReads == 2       \* Read calls staged in one round trip
MaxFd == 4          \* Fcntl descriptors range over -1 .. MaxFd
MaxCmd == 5         \* Fcntl commands range over 0 .. MaxCmd

\* --------------------------------------------------------- program constants
WordSize == 8       \* size_of::<usize>()
HeaderSize == 16    \* size_of::<item::Header>(): two words, repr(C, align(8))
KindEnd == 0
KindSyscall == 1
SyscallArgc == 6    \* item::Syscall.argv
SyscallRetc == 2    \* item::Syscall.ret
\* libc (x86_64 linux) values of the names fcntl.rs imports
STDIN_FILENO == 0
STDOUT_FILENO == 1
STDERR_FILENO == 2
F_GETFD == 1
F_SETFD == 2
F_GETFL == 3
F_SETFL == 4
O_WRONLY == 1
O_RDWR == 2
O_APPEND == 1024
EINVAL == 22
EBADFD == 77

UsizeMax == 2 ^ UsizeBits       \* usize values are 0 .. UsizeMax - 1

VARIABLES
    block,      \* the [usize; N] the iterator walks (sequence of words)
    overflow_checks, \* build profile: TRUE = debug (overflow panics), FALSE = release (wraps)
    capacity,   \* BlockIter.capacity
    ptr,        \* BlockIter.ptr, as byte offset from the block start (mod UsizeMax)
    last,       \* outcome of the latest next(): "new" | "Some" | "None" | "panic"
    yielded,    \* the items next() has returned so far, in order
    header,     \* the header the latest next() read: [size, kind] words
    hdrOff,     \* byte offset at which the latest header was read (-1: none yet)
    wrapped,    \* TRUE once `size_of::<Header>() + header.size` has wrapped
    oob,        \* TRUE once a header was read (partly) outside the block
    req,        \* the (num, argv) record encoded into the block, or NoReq
    epc,        \* execute(): "off" | "loop" | "item" | "done" | "panicked"
    dispatched, \* the items execute() has passed to execute_item, in order
    retWritten, \* indexes (in dispatched) of the items whose ret field was written
    rpc,        \* guest read round trip: "off" | "stage" | "host" | "collect" | "done"
    allocOff,   \* the allocator's bump offset: bytes of the block handed out so far
    reads,      \* the Read calls of this round trip, in staging order
    fcall,      \* the Fcntl call: [fd, cmd, arg]
    fres        \* what Fcntl::stage returned, or Unstaged

iterVars == <<block, overflow_checks, capacity, ptr, last, yielded, header, hdrOff, wrapped, oob, req>>
execVars == <<epc, dispatched, retWritten>>
readVars == <<rpc, allocOff, reads>>
fcntlVars == <<fcall, fres>>
vars == <<iterVars, execVars, readVars, fcntlVars>>

\* ---------------------------------------------------------------- inputs
\* Word values the arbitrary blocks are built from: End / size 0, Syscall /
\* misaligned size, one-word size (also an unknown kind), and the two sizes
\* for which header width + size leaves the usize range.
Vals == {0, 1, WordSize, UsizeMax - HeaderSize, UsizeMax - WordSize}

\* the block of test_iter
TestBlock == <<32, 1, 0, 0, 0, 0, 24, 1, 0, 0, 0, 0, 0, 1, 2, 3, 4, 5, 6, 7>>

NoReq == [num |-> -1, argv |-> <<>>]
NoItem == [kind |-> "none", off |-> 0, len |-> 0]
NoHeader == [size |-> 0, kind |-> 0]

\* values for num and the argv words of an encoded record
ArgVals == {0, UsizeMax - 1}

\* item::Syscall as words, in field order (repr(C)): num, argv[6], ret[2]
SyscallWords(num, argv) == <<num>> \o argv \o [i \in 1..SyscallRetc |-> 0]

SyscallSize == (1 + SyscallArgc + SyscallRetc) * WordSize

\* item::Header as words, in field order (repr(C)): size, kind
HeaderWords(size, kind) == <<size, kind>>

\* one Syscall item followed by the End header
EncodeBlock(num, argv) ==
    HeaderWords(SyscallSize, KindSyscall) \o SyscallWords(num, argv) \o HeaderWords(0, KindEnd)

\* ------------------------------------------------------------ BlockIter
\* Kind read from raw memory.  A word that is no discriminant of Kind is
\* undefined behaviour: the comparison with Kind::End may go either way and
\* the value travels on as it is.
KindOf(w) ==
    IF w = KindEnd THEN {"End"}
    ELSE IF w = KindSyscall THEN {"Syscall"}
    ELSE {"End", "Syscall", "Invalid"}

\* Kind::try_from(kind: usize): the checked conversion (BlockIter::next does
\* not go through it)
Kind_try_from(w) ==
    IF w = KindEnd THEN "End"
    ELSE IF w = KindSyscall THEN "Syscall"
    ELSE "Err"

\* ptr.cast::<T>().read() of one word at byte offset `off`: inside the block
\* the word stored there, outside it any value (out-of-bounds read).
ReadWord(b, off) ==
    IF off + WordSize <= Len(b) * WordSize THEN {b[(off \div WordSize) + 1]} ELSE Vals

\* the `n` bytes at byte offset `off` lie inside the block
InBlock(b, off, n) == off + n <= Len(b) * WordSize

\* self.ptr.cast::<item::Header>().read()
ReadHeader(b, off) ==
    {[size |-> s, kind |-> k] : s \in ReadWord(b, off), k \in ReadWord(b, (off + WordSize) % UsizeMax)}

Misaligned_unchecked(size) == FALSE

\* header.size % size_of::<usize>() != 0
Misaligned(size) == size % WordSize # 0

\* size_of::<item::Header>() + header.size leaves the usize range
Overflows(size) == HeaderSize + size >= UsizeMax

Skip_body_only(size) == size % UsizeMax

\* let skip = size_of::<item::Header>() + header.size  (release: wrapping)
Skip(size) == (HeaderSize + size) % UsizeMax

None == -1

checked_sub_wrapping(a, b) == (a - b) % UsizeMax

\* usize::checked_sub
checked_sub(a, b) == IF b > a THEN None ELSE a - b

ptr_add_bytes(p, n) == (p + n) % UsizeMax

\* ptr.add(n) on *mut usize
ptr_add(p, n) == (p + n * WordSize) % UsizeMax

HeaderLen_short == (HeaderSize \div WordSize) - 1

\* size_of::<item::Header>() / size_of::<usize>()
HeaderLen == HeaderSize \div WordSize

BodyLen_bytes(size) == size

\* header.size / size_of::<usize>()
BodyLen(size) == size \div WordSize

Outcome(res, cap, p, item, w) ==
    [res |-> res, capacity |-> cap, ptr |-> p, item |-> item, wrapped |-> w]

IsEnd_never(kind) == FALSE

\* header.kind == item::Kind::End
IsEnd(kind) == kind = "End"

assert_eq_compiled_out(a, b) == TRUE

\* assert_eq!(a, b) passes
assert_eq(a, b) == a = b

\* BlockIter::next on (capacity, ptr) with the header read and its kind
next(cap, p, h, kind, oc) ==
    IF IsEnd(kind) THEN
        IF ~assert_eq(h.size, 0) THEN Outcome("panic", cap, p, NoItem, FALSE)
        ELSE Outcome("None", cap, p, NoItem, FALSE)
    ELSE IF Misaligned(h.size) THEN Outcome("None", cap, p, NoItem, FALSE)
    ELSE IF Overflows(h.size) /\ oc THEN Outcome("panic", cap, p, NoItem, FALSE)
    ELSE
        LET skip == Skip(h.size)
            c == checked_sub(cap, skip)
            body == ptr_add(p, HeaderLen)
        IN  IF c = None THEN Outcome("None", cap, p, NoItem, Overflows(h.size))
            ELSE Outcome("Some", c, ptr_add(body, BodyLen(h.size)),
                         [kind |-> kind, off |-> body, len |-> h.size],
                         Overflows(h.size))

\* BlockIter::new
BlockIter_new(b) == [capacity |-> Len(b) * WordSize, ptr |-> 0]

Blocks == [1..NWords -> Vals] \cup {TestBlock}

Reqs == [num : ArgVals, argv : [1..SyscallArgc -> ArgVals]]

InitIter ==
    /\ \/ block \in Blocks /\ req = NoReq
       \/ req \in Reqs /\ block = EncodeBlock(req.num, req.argv)
    /\ overflow_checks \in BOOLEAN
    /\ capacity = BlockIter_new(block).capacity
    /\ ptr = BlockIter_new(block).ptr
    /\ last = "new"
    /\ yielded = <<>>
    /\ header = NoHeader
    /\ hdrOff = -1
    /\ wrapped = FALSE
    /\ oob = FALSE

\* ------------------------------------------------- guest: Read round trip
Min(a, b) == IF a <= b THEN a ELSE b

\* Output::stage_slice_max on an allocator at bump offset `off`: reserve as
\* much of `len` bytes as fits, return the handle and the allocator's new offset
stage_slice_max(off, len) ==
    LET n == Min(len, AllocCap - off) IN
    [handle |-> [offset |-> off, len |-> n], alloc |-> off + n]

Read_stage_unclamped(fd, buflen, off) ==
    LET st == stage_slice_max(off, buflen) IN
    [argv |-> <<fd % UsizeMax, st.handle.offset, buflen>>, staged |-> st.handle, alloc |-> st.alloc]

\* Read::stage: Ok((Argv([fd, buf.offset(), buf.len()]), buf))
Read_stage(fd, buflen, off) ==
    LET st == stage_slice_max(off, buflen) IN
    [argv |-> <<fd % UsizeMax, st.handle.offset, st.handle.len>>, staged |-> st.handle, alloc |-> st.alloc]

Ok(v) == [tag |-> "Ok", val |-> v]
Err(e) == [tag |-> "Err", val |-> e]
NoResult == [tag |-> "None", val |-> 0]
Pending == [tag |-> "Pending", val |-> 0]

\* ret.into(): the raw return word as a Result; the negative range (two's
\* complement) is an error code, anything else a success magnitude
Ret_into(w) == IF w >= UsizeMax \div 2 THEN Err(UsizeMax - w) ELSE Ok(w)

\* committed.collect_range(col, range): the bytes [start, end) of the staged
\* region go to the caller's buffer
collect_range(start, end) == [start |-> start, end |-> end]
NoCopy == collect_range(0, 0)

Read_collect_whole(len, ret) ==
    LET r == Ret_into(ret) IN
    IF r.tag = "Ok" /\ r.val > len THEN [result |-> NoResult, copied |-> NoCopy]
    ELSE IF r.tag = "Ok" THEN [result |-> r, copied |-> collect_range(0, len)]
    ELSE [result |-> r, copied |-> NoCopy]

Read_collect_trusting(len, ret) ==
    LET r == Ret_into(ret) IN
    IF r.tag = "Ok" THEN [result |-> r, copied |-> collect_range(0, r.val)]
    ELSE [result |-> r, copied |-> NoCopy]

\* Read::collect on a committed buffer of staged length `len`
Read_collect(len, ret) ==
    LET r == Ret_into(ret) IN
    IF r.tag = "Ok" /\ r.val > len THEN [result |-> NoResult, copied |-> NoCopy]
    ELSE IF r.tag = "Ok" THEN [result |-> r, copied |-> collect_range(0, r.val)]
    ELSE [result |-> r, copied |-> NoCopy]

ReadFds == {0, 3}

\* the words the host may leave in a ret field: any magnitude up to one past
\* the longest buffer, or -EBADF (errno 9)
RetWords == (0..(MaxBuf + 1)) \cup {UsizeMax - 9}

IdleRead == rpc = "off" /\ allocOff = 0 /\ reads = <<>>

\* the guest stages one more Read into the block
Read_stage_call ==
    /\ rpc = "stage"
    /\ Len(reads) < MaxReads
    /\ \E fd \in ReadFds, buflen \in 0..MaxBuf :
         LET st == Read_stage(fd, buflen, allocOff) IN
           /\ reads' = Append(reads, [fd |-> fd, buflen |-> buflen, free |-> AllocCap - allocOff,
                                      argv |-> st.argv, staged |-> st.staged,
                                      ret |-> -1, result |-> Pending, copied |-> NoCopy])
           /\ allocOff' = st.alloc
    /\ UNCHANGED <<rpc, iterVars, execVars, fcntlVars>>

\* the block goes to the host
Handoff ==
    /\ rpc = "stage"
    /\ reads # <<>>
    /\ rpc' = "host"
    /\ UNCHANGED <<allocOff, reads, iterVars, execVars, fcntlVars>>

\* the host runs the items in block order and leaves a word of its choosing
\* in each ret field; after the last one the block goes back to the guest
Host_execute ==
    /\ rpc = "host"
    /\ \E i \in 1..Len(reads) :
         /\ reads[i].ret = -1
         /\ \A j \in 1..(i - 1) : reads[j].ret # -1
         /\ \E w \in RetWords : reads' = [reads EXCEPT ![i].ret = w]
         /\ rpc' = IF i = Len(reads) THEN "collect" ELSE "host"
    /\ UNCHANGED <<allocOff, iterVars, execVars, fcntlVars>>

\* the guest collects the next Read, in staging order
Read_collect_call ==
    /\ rpc = "collect"
    /\ \E i \in 1..Len(reads) :
         /\ reads[i].result = Pending
         /\ \A j \in 1..(i - 1) : reads[j].result # Pending
         /\ LET c == Read_collect(reads[i].staged.len, reads[i].ret) IN
              reads' = [reads EXCEPT ![i].result = c.result, ![i].copied = c.copied]
         /\ rpc' = IF i = Len(reads) THEN "done" ELSE "collect"
    /\ UNCHANGED <<allocOff, iterVars, execVars, fcntlVars>>

\* ------------------------------------------------------ guest: Fcntl policy
Stub(v) == [tag |-> "Stub", val |-> v, argv |-> <<>>]
Alloc(fd, cmd, arg) == [tag |-> "Alloc", val |-> 0, argv |-> <<fd, cmd, arg>>]
Fail(e) == [tag |-> "Err", val |-> e, argv |-> <<>>]
Unstaged == [tag |-> "Unstaged", val |-> 0, argv |-> <<>>]

StdFds == {STDIN_FILENO, STDOUT_FILENO, STDERR_FILENO}

Fcntl_stage_passthrough(fd, cmd, arg) ==
    IF cmd \in {F_GETFD, F_SETFD, F_GETFL, F_SETFL} THEN Alloc(fd, cmd, arg)
    ELSE IF fd \in StdFds THEN Fail(EINVAL)
    ELSE Fail(EBADFD)

Fcntl_stage_default_cross(fd, cmd, arg) ==
    IF fd = STDIN_FILENO /\ cmd = F_GETFL THEN Stub(O_RDWR + O_APPEND)
    ELSE IF fd \in {STDOUT_FILENO, STDERR_FILENO} /\ cmd = F_GETFL THEN Stub(O_WRONLY)
    ELSE IF fd \in StdFds THEN Fail(EINVAL)
    ELSE Alloc(fd, cmd, arg)

\* Fcntl::stage: the match on (self.fd, self.cmd), first arm that matches
Fcntl_stage(fd, cmd, arg) ==
    IF fd = STDIN_FILENO /\ cmd = F_GETFL THEN Stub(O_RDWR + O_APPEND)  \* O_RDWR | O_APPEND
    ELSE IF fd \in {STDOUT_FILENO, STDERR_FILENO} /\ cmd = F_GETFL THEN Stub(O_WRONLY)
    ELSE IF fd \in StdFds THEN Fail(EINVAL)
    ELSE IF cmd \in {F_GETFD, F_SETFD, F_GETFL, F_SETFL} THEN Alloc(fd, cmd, arg)
    ELSE Fail(EBADFD)

IdleFcntl == fcall = [fd |-> 0, cmd |-> 0, arg |-> 0] /\ fres = Unstaged

Fcntl_stage_call ==
    /\ fres = Unstaged
    /\ fres' = Fcntl_stage(fcall.fd, fcall.cmd, fcall.arg)
    /\ UNCHANGED <<fcall, iterVars, execVars, readVars>>

IdleExec == epc = "off" /\ dispatched = <<>> /\ retWritten = {}

\* one call of BlockIter::next on the iterator's state
IterStep ==
    /\ Len(yielded) < MaxYield
    /\ \E h \in ReadHeader(block, ptr) :
       \E kind \in KindOf(h.kind) :
         LET r == next(capacity, ptr, h, kind, overflow_checks) IN
           /\ header' = h
           /\ hdrOff' = ptr
           /\ oob' = (oob \/ ~InBlock(block, ptr, HeaderSize))
           /\ last' = r.res
           /\ capacity' = r.capacity
           /\ ptr' = r.ptr
           /\ wrapped' = (wrapped \/ r.wrapped)
           /\ yielded' = IF r.res = "Some" THEN Append(yielded, r.item) ELSE yielded
    /\ UNCHANGED <<block, overflow_checks, req>>

\* a caller that drives the iterator by hand, as test_iter does
BlockIter_next ==
    /\ epc = "off"
    /\ last # "panic"
    /\ IterStep
    /\ UNCHANGED <<execVars, readVars, fcntlVars>>

\* execute(): the `for item in BlockIter::new(..)` loop asks for the next item
execute_loop ==
    /\ epc = "loop"
    /\ IterStep
    /\ epc' = CASE last' = "Some" -> "item"
                [] last' = "None" -> "done"
                [] OTHER -> "panicked"
    /\ UNCHANGED <<dispatched, retWritten, readVars, fcntlVars>>

\* execute_item(item): todo!()
execute_item ==
    /\ epc = "item"
    /\ dispatched' = Append(dispatched, yielded[Len(yielded)])
    /\ epc' = "panicked"
    /\ UNCHANGED <<iterVars, retWritten, readVars, fcntlVars>>

Init == InitIter /\ IdleExec /\ IdleRead /\ IdleFcntl

Next == BlockIter_next

Spec == Init /\ [][Next]_vars

InitExec ==
    /\ InitIter
    /\ epc = "loop" /\ dispatched = <<>> /\ retWritten = {}
    /\ IdleRead /\ IdleFcntl

NextExec == execute_loop \/ execute_item

SpecExec == InitExec /\ [][NextExec]_vars

InitRead ==
    /\ InitIter /\ block = TestBlock /\ ~overflow_checks
    /\ IdleExec /\ IdleFcntl
    /\ rpc = "stage" /\ allocOff = 0 /\ reads = <<>>

NextRead == Read_stage_call \/ Handoff \/ Host_execute \/ Read_collect_call

SpecRead == InitRead /\ [][NextRead]_vars

InitFcntl ==
    /\ InitIter /\ block = TestBlock /\ ~overflow_checks
    /\ IdleExec /\ IdleRead
    /\ fcall \in [fd : (-1)..MaxFd, cmd : 0..MaxCmd, arg : {0, 1}]
    /\ fres = Unstaged

NextFcntl == Fcntl_stage_call

SpecFcntl == InitFcntl /\ [][NextFcntl]_vars

\* ---------------------------------------------------------------- claims
BlockBytes == Len(block) * WordSize

\* The items a block holds from byte offset `off` on when it is k well-formed
\* Syscall items followed by Header{size = 0, kind = End}; ok = FALSE when the
\* block is not of that shape.
RECURSIVE Staged(_, _)
Staged(b, off) ==
    IF off + HeaderSize > Len(b) * WordSize THEN [ok |-> FALSE, items |-> <<>>]
    ELSE LET size == b[(off \div WordSize) + 1]
             kind == b[(off \div WordSize) + 2]
         IN  IF kind = KindEnd /\ size = 0 THEN [ok |-> TRUE, items |-> <<>>]
             ELSE IF /\ kind = KindSyscall
                     /\ size % WordSize = 0
                     /\ off + HeaderSize + size <= Len(b) * WordSize
             THEN LET rest == Staged(b, off + HeaderSize + size)
                  IN  [ok |-> rest.ok,
                       items |-> <<[kind |-> "Syscall", off |-> off + HeaderSize, len |-> size]>>
                                 \o rest.items]
             ELSE [ok |-> FALSE, items |-> <<>>]

IsPrefix(s, t) == Len(s) <= Len(t) /\ s = SubSeq(t, 1, Len(s))

\* C1: on a block of k well-formed Syscall items followed by an End header of
\* size 0, every call of next() yields the next of those items, in block
\* order, with its header's kind and a body of `size` bytes right after its
\* header, and the call after the k-th item returns end-of-sequence; the
\* block of test_iter yields bodies of 32 and 24 bytes and then ends.
C1_YieldsStagedItems ==
    [][ LET w == Staged(block, 0) IN
        w.ok =>
            /\ last' # "panic"
            /\ IsPrefix(yielded', w.items)
            /\ yielded = w.items => last' = "None"
            /\ last' = "None" => yielded' = w.items
            /\ block = TestBlock /\ last' = "None" =>
                   /\ Len(yielded') = 2
                   /\ yielded'[1].kind = "Syscall" /\ yielded'[1].len = 32
                   /\ yielded'[2].kind = "Syscall" /\ yielded'[2].len = 24 ]_vars

C1_Witness ==
    /\ block = TestBlock
    /\ last = "None"
    /\ Len(yielded) = 2

\* C2: every header next() reads lies entirely inside the block.
C2_HeaderReadInsideBlock ==
    hdrOff # -1 => hdrOff + HeaderSize <= BlockBytes

\* C3: as long as header width + size has not left the usize range, every
\* yielded item has its whole body inside the block.
C3_BodyInsideBlock ==
    ~wrapped => \A i \in 1..Len(yielded) : yielded[i].off + yielded[i].len <= BlockBytes

C3_Witness ==
    /\ ~wrapped
    /\ \E i \in 1..Len(yielded) : yielded[i].len > 0

\* C4: a Syscall header with a word-aligned size and header width + size
\* greater than the remaining capacity makes next() return end-of-sequence
\* without a panic, yield nothing and leave cursor and capacity as they were.
C4_OverCapacityEndsQuietly ==
    [][ ( /\ hdrOff' = ptr
          /\ header'.kind = KindSyscall
          /\ ~Misaligned(header'.size)
          /\ HeaderSize + header'.size > capacity )
        => ( /\ last' = "None"
             /\ yielded' = yielded
             /\ ptr' = ptr
             /\ capacity' = capacity ) ]_vars

\* C5: the walk yields at most N * word size / header width items (stated
\* here for walks whose header reads all lay inside the block).
C5_WalkIsFinite ==
    ~oob => Len(yielded) <= BlockBytes \div HeaderSize

\* the (num, argv) an item's body decodes to, by the item::Syscall layout
DecodeSyscall(b, item) ==
    LET w == item.off \div WordSize IN
    [num |-> b[w + 1], argv |-> [i \in 1..SyscallArgc |-> b[w + 1 + i]]]

\* C9: one encoded Syscall record followed by an End header walks as exactly
\* one item, of kind Syscall, whose body decodes to the same num and argv,
\* and the call after that item returns end-of-sequence.
C9_RoundTrip ==
    [][ req # NoReq =>
            /\ last' # "panic"
            /\ Len(yielded') <= 1
            /\ Len(yielded) = 1 => last' = "None"
            /\ last' = "None" =>
                   /\ Len(yielded') = 1
                   /\ yielded'[1].kind = "Syscall"
                   /\ yielded'[1].len = SyscallSize
                   /\ DecodeSyscall(block, yielded'[1]) = req ]_vars

C9_Witness ==
    /\ req # NoReq
    /\ req.num = UsizeMax - 1
    /\ last = "None"
    /\ Len(yielded) = 1

\* C8: execute() on a block of two Syscall items dispatches both, in block
\* order, each once, and writes each item's ret field.
C8_BothItemsExecuted ==
    LET w == Staged(block, 0) IN
    (w.ok /\ Len(w.items) = 2 /\ epc \in {"done", "panicked"}) =>
        /\ epc = "done"
        /\ dispatched = w.items
        /\ retWritten = {1, 2}

Collected(i) == reads[i].result # Pending

\* the host reported success with a magnitude above the staged length
Overlong(i) ==
    /\ Ret_into(reads[i].ret).tag = "Ok"
    /\ Ret_into(reads[i].ret).val > reads[i].staged.len

BytesCopied(i) == reads[i].copied.end - reads[i].copied.start

HandleOff(i) == reads[i].argv[2]
HandleLen(i) == reads[i].argv[3]

C7_FcntlPolicy ==
    LET fd == fcall.fd
        cmd == fcall.cmd
        std == fd = 0 \/ fd = 1 \/ fd = 2
        listed == cmd = F_GETFD \/ cmd = F_SETFD \/ cmd = F_GETFL \/ cmd = F_SETFL
    IN  fres # Unstaged =>
        /\ fd = 0 /\ cmd = F_GETFL => fres.tag = "Stub" /\ fres.val = 1026
        /\ (fd = 1 \/ fd = 2) /\ cmd = F_GETFL => fres.tag = "Stub" /\ fres.val = 1
        /\ std /\ cmd # F_GETFL => fres.tag = "Err" /\ fres.val = EINVAL
        /\ ~std /\ listed => fres.tag = "Alloc" /\ fres.argv = <<fd, cmd, fcall.arg>>
        /\ ~std /\ ~listed => fres.tag = "Err" /\ fres.val = EBADFD
        /\ fres.tag \in {"Stub", "Err", "Alloc"}

C7_Witness ==
    /\ fres.tag = "Alloc"
    /\ fcall.fd = 3
    /\ fcall.cmd = F_SETFL

\* C11: a header of kind End with a size other than 0 is not a valid end of
\* the block: the call yields no item and does not return the ordinary
\* end-of-sequence of End{0}; the assertion on the size fails instead.
C11_NonzeroEndIsCorruption ==
    [][ (header'.kind = KindEnd /\ header'.size # 0) =>
            /\ last' = "panic"
            /\ yielded' = yielded ]_vars

C11_Witness ==
    /\ hdrOff = 0
    /\ header.kind = KindEnd
    /\ header.size = WordSize
    /\ last = "panic"

\* C12: a Syscall header whose size is no multiple of the word width ends the
\* sequence: no item, no read other than that header, cursor and capacity
\* unchanged, whether or not header + size fits the remaining capacity.
C12_MisalignedEndsWalk ==
    [][ (header'.kind = KindSyscall /\ header'.size % WordSize # 0) =>
            /\ last' = "None"
            /\ yielded' = yielded
            /\ hdrOff' = ptr
            /\ ptr' = ptr
            /\ capacity' = capacity ]_vars

\* the misaligned size did not fit: header + size exceeds the capacity left
C12_Witness ==
    /\ last = "None"
    /\ header.kind = KindSyscall
    /\ header.size % WordSize # 0
    /\ hdrOff + HeaderSize <= BlockBytes
    /\ HeaderSize + header.size > capacity
    /\ Len(yielded) = 1

\* C13: a header whose kind word is neither End nor Syscall stops the walk:
\* no item is yielded for it and no later header is read.
C13_UnknownKindStopsWalk ==
    [][ /\ Kind_try_from(header'.kind) = "Err" =>
               /\ last' # "Some"
               /\ yielded' = yielded
        /\ (hdrOff # -1 /\ Kind_try_from(header.kind) = "Err") =>
               /\ hdrOff' = hdrOff
               /\ yielded' = yielded ]_vars

\* C14: a Syscall header whose word-aligned size makes header width + size
\* leave the usize range ends the walk; no item is yielded and neither the
\* cursor nor the capacity moves on the basis of the wrapped sum.
C14_FootprintNeverWraps ==
    [][ (/\ header'.kind = KindSyscall
         /\ header'.size % WordSize = 0
         /\ HeaderSize + header'.size >= UsizeMax) =>
            /\ last' \in {"None", "panic"}
            /\ yielded' = yielded
            /\ ptr' = ptr
            /\ capacity' = capacity ]_vars

EndHeader == [size |-> 0, kind |-> KindEnd]

\* C16: nothing after the first End header is examined: a call that reads
\* End{0} inside the block returns end-of-sequence without yielding and
\* leaves the cursor on that header, and every later call reads that same
\* header again, whatever words follow it.
C16_NothingAfterEnd ==
    [][ /\ (header' = EndHeader /\ hdrOff' + HeaderSize <= BlockBytes) =>
               /\ last' = "None"
               /\ yielded' = yielded
               /\ ptr' = hdrOff'
               /\ capacity' = capacity
        /\ (header = EndHeader /\ hdrOff # -1 /\ hdrOff + HeaderSize <= BlockBytes) =>
               /\ hdrOff' = hdrOff
               /\ header' = header ]_vars

\* halted at an End header that is followed by a well-formed Syscall header
C16_Witness ==
    /\ last = "None"
    /\ header = EndHeader
    /\ hdrOff = 0
    /\ block[3] = 0 /\ block[4] = KindSyscall
    /\ yielded = <<>>

\* C17: collect copies only on success and never more than was staged: a
\* success R <= L copies exactly the bytes [0, R) and returns Some(Ok(R)); an
\* error copies nothing and returns Some(Err(e)); whatever the ret word, the
\* number of bytes copied is at most L.
C17_CollectWithinStaged ==
    \A i \in 1..Len(reads) :
        Collected(i) =>
            LET L == reads[i].staged.len
                w == reads[i].ret
                negative == w >= UsizeMax \div 2
            IN  /\ (~negative /\ w <= L) =>
                       /\ reads[i].copied = [start |-> 0, end |-> w]
                       /\ reads[i].result = [tag |-> "Ok", val |-> w]
                /\ negative =>
                       /\ BytesCopied(i) = 0
                       /\ reads[i].result = [tag |-> "Err", val |-> UsizeMax - w]
                /\ BytesCopied(i) <= L
                /\ BytesCopied(i) >= 0

\* a partial read (0 < R < L) and a failed read, both collected
C17_Witness ==
    /\ Len(reads) = 2
    /\ Collected(1) /\ Collected(2)
    /\ reads[1].ret > 0 /\ reads[1].ret < reads[1].staged.len
    /\ reads[2].result.tag = "Err"

\* C18: Fcntl never crosses to the host for a standard descriptor: the
\* outcome is Alloc only for a non-standard fd with one of F_GETFD, F_SETFD,
\* F_GETFL, F_SETFL; whatever matches no rule is an error, EINVAL on a
\* standard descriptor and the different code EBADFD elsewhere.
C18_NoCrossForStdFds ==
    LET std == fcall.fd \in {0, 1, 2}
        listed == fcall.cmd \in {F_GETFD, F_SETFD, F_GETFL, F_SETFL}
    IN  fres # Unstaged =>
        /\ fres.tag = "Alloc" => ~std /\ listed
        /\ std => fres.tag \in {"Stub", "Err"}
        /\ ~listed => fres.tag = "Err"
        /\ fres.tag = "Err" => fres.val = (IF std THEN EINVAL ELSE EBADFD)
        /\ EINVAL # EBADFD

C18_Witness ==
    /\ fres.tag = "Err"
    /\ fres.val = EBADFD
    /\ fcall.fd = 3
    /\ fcall.cmd = 0

\* C19: while header width + size has not wrapped, remaining capacity plus
\* the bytes the cursor has advanced from the block start equals N * word
\* size, from BlockIter::new on; the capacity never grows, the cursor never
\* moves back, and both change only in a call that yields an item.
C19_CapacityTracksCursor ==
    /\ capacity + ptr = BlockBytes
    /\ [][ ~wrapped' =>
               /\ capacity' + ptr' = BlockBytes
               /\ capacity' <= capacity
               /\ ptr' >= ptr
               /\ (capacity' # capacity \/ ptr' # ptr) =>
                      /\ last' = "Some"
                      /\ Len(yielded') = Len(yielded) + 1
               /\ (last' = "Some" /\ Len(yielded') = Len(yielded) + 1) =>
                      /\ capacity' = capacity - (HeaderSize + header'.size)
                      /\ ptr' = ptr + HeaderSize + header'.size ]_vars

\* an item with a body was yielded and a later call ended the walk
C19_Witness ==
    /\ ~wrapped
    /\ Len(yielded) = 1
    /\ yielded[1].len > 0
    /\ capacity = BlockBytes - HeaderSize - yielded[1].len
    /\ last = "None"

\* where the cursor stands: the two words at ptr, if they are in the block
AtEndHeader ==
    /\ ptr + HeaderSize <= BlockBytes
    /\ block[(ptr \div WordSize) + 1] = 0
    /\ block[(ptr \div WordSize) + 2] = KindEnd

\* C20 (as claimed): the 20 words of the worked example hold no End header:
\* after the two Syscall items the cursor is not at a header End{0}.
C20_FragmentHasNoEnd ==
    (block = TestBlock /\ Len(yielded) = 2) => ~AtEndHeader

\* C20 (amended): the 20 words of the worked example do hold an End header:
\* after the two Syscall items (bodies of 32 and 24 bytes) the cursor is at
\* byte 88, where words 11 and 12 are 0, 0 = End{0}; the walk ends there and
\* only there, and the 7 words after it are never read.
C20_FragmentEndsAtWord11 ==
    block = TestBlock =>
        /\ Len(yielded) = 2 =>
               /\ yielded[1].len = 32 /\ yielded[2].len = 24
               /\ ptr = 88
               /\ AtEndHeader
        /\ last = "None" =>
               /\ Len(yielded) = 2
               /\ hdrOff = 88
               /\ header = EndHeader
        /\ hdrOff <= 88

C20_Witness ==
    /\ block = TestBlock
    /\ last = "None"
    /\ hdrOff = 88
    /\ header = EndHeader

====
